---- MODULE Spec2Model ----
(***************************************************************************)
(* praxis/layers/quantization/aqt.py: the TensorQuantizer layer            *)
(* (quantization aware training ops).                                      *)
(*                                                                         *)
(* Floating point values are modelled as dyadic rationals m * 2^e, kept    *)
(* normalised (m odd, or m = e = 0).  A float type is its significand      *)
(* width: every arithmetic result and every astype() is rounded to that    *)
(* width, round to nearest, ties to even.  The inputs are normal numbers,  *)
(* so the exponent range (overflow to infinity, subnormals) is not part    *)
(* of the model.                                                           *)
(***************************************************************************)
EXTENDS Integers, Sequences, FiniteSets, TLC

VARIABLES precision, stop_scale_gradient, status, call

vars == <<precision, stop_scale_gradient, status, call>>

(***************************************************************************)
(* Bounds of the model.                                                    *)
(***************************************************************************)
\* precisions 1..MaxPrecision are configured, besides None
MaxPrecision == 24
\* tensors have rank 2 and every axis has size 1..MaxDim
MaxDim == 2

(***************************************************************************)
(* Integers.                                                               *)
(***************************************************************************)
Pow2(n) == IF n <= 0 THEN 1 ELSE 2 ^ n

RECURSIVE BitLen(_)
BitLen(n) ==
    IF n <= 0 THEN 0
    ELSE IF n >= 65536 THEN 16 + BitLen(n \div 65536)
    ELSE IF n >= 256 THEN 8 + BitLen(n \div 256)
    ELSE IF n >= 16 THEN 4 + BitLen(n \div 16)
    ELSE 1 + BitLen(n \div 2)

IAbs(n) == IF n < 0 THEN -n ELSE n

ISign(n) == IF n < 0 THEN -1 ELSE IF n = 0 THEN 0 ELSE 1

\* n / 2^sh truncated, the lowest bit set when a nonzero bit was shifted out
ShiftJam(n, sh) ==
    IF sh <= 0 THEN n
    ELSE IF sh >= BitLen(n) THEN (IF n = 0 THEN 0 ELSE 1)
    ELSE LET q == n \div Pow2(sh)
             r == n % Pow2(sh)
         IN  IF r # 0 /\ q % 2 = 0 THEN q + 1 ELSE q

(***************************************************************************)
(* Dyadic numbers: [m |-> significand, e |-> exponent], the value m * 2^e. *)
(***************************************************************************)
RECURSIVE Norm(_, _)
Norm(m, e) ==
    IF m = 0 THEN [m |-> 0, e |-> 0]
    ELSE IF m % 256 = 0 THEN Norm(m \div 256, e + 8)
    ELSE IF m % 2 = 0 THEN Norm(m \div 2, e + 1)
    ELSE [m |-> m, e |-> e]

Zero == Norm(0, 0)
One == Norm(1, 0)
Half == Norm(1, -1)

Int2Dy(n) == Norm(n, 0)

\* the value lies in [2^(Msb-1), 2^Msb) in magnitude
Msb(a) == BitLen(IAbs(a.m)) + a.e

Neg(a) == [m |-> -a.m, e |-> a.e]

DyAbs(a) == [m |-> IAbs(a.m), e |-> a.e]

\* a < b for a, b >= 0
LtPos(a, b) ==
    IF b.m = 0 THEN FALSE
    ELSE IF a.m = 0 THEN TRUE
    ELSE IF Msb(a) # Msb(b) THEN Msb(a) < Msb(b)
    ELSE IF a.e >= b.e THEN a.m * Pow2(a.e - b.e) < b.m
    ELSE a.m < b.m * Pow2(b.e - a.e)

Lt(a, b) ==
    IF a.m < 0 /\ b.m >= 0 THEN TRUE
    ELSE IF a.m >= 0 /\ b.m < 0 THEN FALSE
    ELSE IF a.m < 0 THEN LtPos(Neg(b), Neg(a))
    ELSE LtPos(a, b)

Leq(a, b) == a = b \/ Lt(a, b)

DyMax(a, b) == IF Lt(a, b) THEN b ELSE a

DyMin(a, b) == IF Lt(b, a) THEN b ELSE a

\* m * 2^e rounded to `bits` significant bits, to nearest, ties to even
RoundTo(m, e, bits) ==
    LET n == IAbs(m)
        sh == BitLen(n) - bits
    IN  IF sh <= 0 THEN Norm(m, e)
        ELSE LET q == n \div Pow2(sh)
                 r == n % Pow2(sh)
                 half == Pow2(sh - 1)
                 up == r > half \/ (r = half /\ q % 2 = 1)
             IN  Norm(ISign(m) * (IF up THEN q + 1 ELSE q), e + sh)

\* the largest integer <= a
Floor(a) ==
    IF a.e >= 0 THEN a
    ELSE IF -a.e >= BitLen(IAbs(a.m)) THEN (IF a.m < 0 THEN Int2Dy(-1) ELSE Zero)
    ELSE Int2Dy(a.m \div Pow2(-a.e))

\* a + b rounded to `bits` significant bits; a and b have at most `bits` bits
Add(a, b, bits) ==
    IF a.m = 0 THEN b
    ELSE IF b.m = 0 THEN a
    ELSE LET hi == IF Msb(a) >= Msb(b) THEN a ELSE b
             lo == IF Msb(a) >= Msb(b) THEN b ELSE a
             u == Msb(hi) - bits - 3
             A == hi.m * Pow2(hi.e - u)
             B == IF lo.e >= u THEN lo.m * Pow2(lo.e - u)
                  ELSE ISign(lo.m) * ShiftJam(IAbs(lo.m), u - lo.e)
         IN  RoundTo(A + B, u, bits)

\* the quotient of n * 2^k by d, k >= 0, by long division: <<quotient, remainder>>
RECURSIVE LongDiv(_, _, _, _)
LongDiv(q, r, d, k) ==
    IF k = 0 THEN <<q, r>>
    ELSE IF k >= 4 THEN LongDiv(16 * q + (16 * r) \div d, (16 * r) % d, d, k - 4)
    ELSE IF 2 * r >= d THEN LongDiv(2 * q + 1, 2 * r - d, d, k - 1)
    ELSE LongDiv(2 * q, 2 * r, d, k - 1)

\* a / b rounded to `bits` significant bits, b > 0
Div(a, b, bits) ==
    IF a.m = 0 THEN Zero
    ELSE LET n == IAbs(a.m)
             d == b.m
             k == bits + 2 + BitLen(d) - BitLen(n)
             qr == IF k >= 0 THEN LongDiv(n \div d, n % d, d, k)
                   ELSE <<n \div (d * Pow2(-k)), n % (d * Pow2(-k))>>
             q == IF qr[2] # 0 /\ qr[1] % 2 = 0 THEN qr[1] + 1 ELSE qr[1]
         IN  RoundTo(ISign(a.m) * q, a.e - b.e - k, bits)

\* a - b exactly: Python floats are doubles, and the operands here need at most
\* 24 bits, so the double result is exact
DySub(a, b) ==
    LET e == IF a.e < b.e THEN a.e ELSE b.e
    IN  Norm(a.m * Pow2(a.e - e) - b.m * Pow2(b.e - e), e)

\* a * b exactly, for the factors of a derivative (0, 1/2, 1)
DyMul(a, b) == Norm(a.m * b.m, a.e + b.e)

(***************************************************************************)
(* Float types: jnp.bfloat16 has 8 significant bits, jnp.float32 has 24.   *)
(***************************************************************************)
DTypes == {"bfloat16", "float32"}

Bits(dtype) == IF dtype = "bfloat16" THEN 8 ELSE 24

\* x.astype(dtype)
Cast(a, dtype) == RoundTo(a.m, a.e, Bits(dtype))

\* the type of an operation on an array of type a and one of type b
Promote(a, b) == IF a = "float32" \/ b = "float32" THEN "float32" ELSE "bfloat16"

\* jnp.finfo(dtype).eps
FinfoEps(dtype) == Norm(1, 1 - Bits(dtype))

(***************************************************************************)
(* Tensors of rank 2: a sequence of rows.  An element is a dual number     *)
(* [v |-> value, t |-> derivative with respect to the input element].      *)
(***************************************************************************)
Shape(x) == <<Len(x), Len(x[1])>>

Map(F(_), x) == [i \in 1..Len(x) |-> [j \in 1..Len(x[i]) |-> F(x[i][j])]]

Dual(v, t) == [v |-> v, t |-> t]

Values(x) == Map(LAMBDA a : a.v, x)

Tangents(x) == Map(LAMBDA a : a.t, x)

\* the input of a differentiated call: every element has derivative 1
Inputs(x) == Map(LAMBDA v : Dual(v, One), x)

\* jax.lax.stop_gradient
StopGradient(a) == Dual(a.v, Zero)

\* jnp.maximum(bound, a) for a constant bound, computed in a's type; on a tie
\* the derivative is tie (1/2 by lax.max's rule, 0 by lax.clamp's)
Maximum(bound, a, tie) ==
    IF Lt(bound, a.v) THEN a
    ELSE IF a.v = bound THEN Dual(bound, DyMul(tie, a.t))
    ELSE Dual(bound, Zero)

\* jnp.minimum(bound, a)
Minimum(bound, a, tie) ==
    IF Lt(a.v, bound) THEN a
    ELSE IF a.v = bound THEN Dual(bound, DyMul(tie, a.t))
    ELSE Dual(bound, Zero)

\* jnp.clip(a, lo, hi): the Python scalars lo and hi are weakly typed, they
\* are converted to a's type
Clip(a, lo, hi, xdtype, tie) ==
    Minimum(Cast(hi, xdtype), Maximum(Cast(lo, xdtype), a, tie), tie)

(***************************************************************************)
(* aqt.py                                                                  *)
(***************************************************************************)
None == <<>>

\* setup(): precision <= MaxBits
MaxBits == 23
\* _safe_clip_bound(): the epsilon is 2^(precision - EpsExp)
EpsExp == 20

\* the forward value alone: stop_gradient(fn(x))
PassThroughNoIdentity(a, fa, xdtype) == StopGradient(fa)

\* x - stop_gradient(x) + stop_gradient(fn(x)), in x's type; fa is fn(x)
PassThrough(a, fa, xdtype) ==
    LET sx == StopGradient(a)
        sf == StopGradient(fa)
        d == Dual(Add(a.v, Neg(sx.v), Bits(xdtype)), DySub(a.t, sx.t))
    IN  Dual(Add(d.v, sf.v, Bits(xdtype)), Add(d.t, sf.t, Bits(xdtype)))

\* TensorQuantizer._get_clip_bound
GetClipBound(p) == Norm(Pow2(p) - 1, -1)

\* the 2.0 ** (-20 + precision) of _safe_clip_bound
Epsilon(p) == Norm(1, p - EpsExp)

\* TensorQuantizer._safe_clip_bound, without its assertion
SafeClipBound(p) == DySub(GetClipBound(p), Epsilon(p))

\* the assertion of _safe_clip_bound
SafeClipBoundOk(p) == Lt(SafeClipBound(p), GetClipBound(p))

\* an assertion that rejects MaxBits itself
SetupOkBelowMaxBits(prec) == prec = None \/ prec[1] < MaxBits

\* TensorQuantizer.setup: the assertion on precision
SetupOk(prec) == prec = None \/ prec[1] <= MaxBits

\* to_quant that skips only the clipping when precision is None
ToQuantElemAlwaysRounds(prec, a, xdtype, dtype, tie) ==
    LET c == IF prec = None THEN a
             ELSE Clip(a, Neg(SafeClipBound(prec[1])), SafeClipBound(prec[1]),
                       xdtype, tie)
        s == Dual(Add(c.v, Half, Bits(xdtype)), c.t)
        r == PassThrough(s, Dual(Floor(s.v), s.t), xdtype)
    IN  Dual(Cast(r.v, dtype), r.t)

\* TensorQuantizer.to_quant on one element
ToQuantElem(prec, a, xdtype, dtype, tie) ==
    IF prec = None THEN Dual(Cast(a.v, dtype), a.t)
    ELSE LET clip_bound == SafeClipBound(prec[1])
             c == Clip(a, Neg(clip_bound), clip_bound, xdtype, tie)
             s == Dual(Add(c.v, Half, Bits(xdtype)), c.t)
             r == PassThrough(s, Dual(Floor(s.v), s.t), xdtype)
         IN  Dual(Cast(r.v, dtype), r.t)

\* TensorQuantizer.to_quant: the tensor of the results and their derivatives
ToQuantOf(prec, x, xdtype, dtype, tie) ==
    Map(LAMBDA a : ToQuantElem(prec, a, xdtype, dtype, tie), Inputs(x))

\* the largest element of a nonempty set of dyadic numbers
MaxOf(S) == CHOOSE v \in S : \A w \in S : Leq(w, v)

\* the reduction without jnp.abs: the largest element where one is positive,
\* else 0
ReduceMaxSigned(x, contract_dims) ==
    LET rows == 1..Len(x)
        cols == 1..Len(x[1])
        Group(i, j) == {x[a][b] :
                          a \in (IF 0 \in contract_dims THEN rows ELSE {i}),
                          b \in (IF 1 \in contract_dims THEN cols ELSE {j})}
    IN  [i \in (IF 0 \in contract_dims THEN {1} ELSE rows) |->
           [j \in (IF 1 \in contract_dims THEN {1} ELSE cols) |->
               DyMax(Zero, MaxOf(Group(i, j)))]]

\* jnp.max(jnp.abs(x), keepdims=True): the reduction over every axis, whatever
\* contract_dims
ReduceMaxAbsAllAxes(x, contract_dims) ==
    <<<<MaxOf({DyAbs(x[a][b]) : a \in 1..Len(x), b \in 1..Len(x[1])})>>>>

\* jnp.max(jnp.abs(x), axis=contract_dims, keepdims=True)
ReduceMaxAbs(x, contract_dims) ==
    LET rows == 1..Len(x)
        cols == 1..Len(x[1])
        Group(i, j) == {DyAbs(x[a][b]) :
                          a \in (IF 0 \in contract_dims THEN rows ELSE {i}),
                          b \in (IF 1 \in contract_dims THEN cols ELSE {j})}
    IN  [i \in (IF 0 \in contract_dims THEN {1} ELSE rows) |->
           [j \in (IF 1 \in contract_dims THEN {1} ELSE cols) |-> MaxOf(Group(i, j))]]

\* get_quant_scale without the replacement of a zero scale
ScaleElemZeroKept(p, ssg, x_bound, xdtype, dtype) ==
    LET clip_bound == Cast(GetClipBound(p), xdtype)
        scale == Div(x_bound, clip_bound, Bits(xdtype))
    IN  Cast(IF ssg THEN scale
             ELSE Add(scale, FinfoEps(dtype), Bits(Promote(xdtype, dtype))),
             dtype)

\* get_quant_scale on one reduced element x_bound
ScaleElem(p, ssg, x_bound, xdtype, dtype) ==
    LET clip_bound == Cast(GetClipBound(p), xdtype)
        scale == Div(x_bound, clip_bound, Bits(xdtype))
        guarded == IF ssg THEN (IF scale = Zero THEN One ELSE scale)
                   ELSE Add(scale, FinfoEps(dtype), Bits(Promote(xdtype, dtype)))
    IN  Cast(guarded, dtype)

\* TensorQuantizer.get_quant_scale
GetQuantScaleOf(prec, ssg, x, contract_dims, xdtype, dtype) ==
    IF prec = None THEN <<<<Cast(One, dtype)>>>>
    ELSE Map(LAMBDA b : ScaleElem(prec[1], ssg, b, xdtype, dtype),
             ReduceMaxAbs(x, contract_dims))

(***************************************************************************)
(* The inputs of the calls.                                                *)
(***************************************************************************)
\* element values around the bounds and the ties of precision p
ElemRaw(p) ==
    {Zero, Half, Neg(Half), Int2Dy(-200),
     GetClipBound(p), Neg(GetClipBound(p)), SafeClipBound(p), Neg(SafeClipBound(p)),
     Norm(1, p), Norm(Pow2(p - 1) + 1, -1)}
    \cup (IF p <= 15 THEN {Norm((Pow2(p) - 1) * 257, -9)} ELSE {})

ElemVals(prec, xdtype) ==
    {Cast(v, xdtype) : v \in ElemRaw(IF prec = None THEN 8 ELSE prec[1])}

\* rows x cols elements, all base but the first
Pattern(rows, cols, base, peak) ==
    [i \in 1..rows |-> [j \in 1..cols |-> IF i = 1 /\ j = 1 THEN peak ELSE base]]

\* the first axis has size 1 or MaxDim, the second has size MaxDim
Tensors(prec, xdtype) ==
    {Pattern(r, MaxDim, base, peak) : r \in {1, MaxDim},
                                base \in {Zero, Int2Dy(3)},
                                peak \in ElemVals(prec, xdtype)}

Axes == {0, 1}

\* x / scale, the scale broadcast against x, in the type ydtype
Scaled(x, scale, ydtype) ==
    [i \in 1..Len(x) |-> [j \in 1..Len(x[i]) |->
        Div(x[i][j],
            scale[IF Len(scale) = 1 THEN 1 ELSE i][IF Len(scale[1]) = 1 THEN 1 ELSE j],
            Bits(ydtype))]]

(***************************************************************************)
(* The quantizer: construction, setup and the calls.                       *)
(***************************************************************************)
\* call is the call in progress: its arguments, its result out and the
\* derivative grad of each element of out with respect to its input element.
\* from tells where x comes from: "caller", "again" (the result of the to_quant
\* call before) or "scaled" (orig divided by the scale of the get_quant_scale
\* call before).
NoCall == [op |-> "none", x |-> <<>>, xdtype |-> "", contract_dims |-> {},
           dtype |-> "", out |-> <<>>, grad |-> <<>>, from |-> "caller",
           orig |-> <<>>, scale |-> <<>>]

Init ==
    /\ precision \in {None} \cup {<<p>> : p \in 1..MaxPrecision}
    /\ stop_scale_gradient \in BOOLEAN
    /\ status = "constructed"
    /\ call = NoCall

\* setup(): the layer is set up before its first call
Setup ==
    /\ status = "constructed"
    /\ status' = IF SetupOk(precision) THEN "ready" ELSE "failed"
    /\ UNCHANGED <<precision, stop_scale_gradient, call>>

\* __call__()
Call ==
    /\ status = "ready"
    /\ call.op = "none"
    /\ call' = [NoCall EXCEPT !.op = "__call__"]
    /\ UNCHANGED <<precision, stop_scale_gradient, status>>

\* an update(x) that records in the configuration that it ran
UpdateKeepsState ==
    /\ status = "ready"
    /\ call.op = "none"
    /\ \E xdtype \in DTypes : \E x \in Tensors(precision, xdtype) :
         call' = [NoCall EXCEPT !.op = "update", !.x = x, !.xdtype = xdtype]
    /\ stop_scale_gradient' = TRUE
    /\ UNCHANGED <<precision, status>>

\* update(x)
Update ==
    /\ status = "ready"
    /\ call.op = "none"
    /\ \E xdtype \in DTypes : \E x \in Tensors(precision, xdtype) :
         call' = [NoCall EXCEPT !.op = "update", !.x = x, !.xdtype = xdtype]
    /\ UNCHANGED <<precision, stop_scale_gradient, status>>

\* get_quant_scale(x, contract_dims, dtype)
GetQuantScale ==
    /\ status = "ready"
    /\ call.op = "none"
    /\ \E xdtype \in DTypes, dtype \in DTypes, contract_dims \in SUBSET Axes :
         \E x \in Tensors(precision, xdtype) :
           call' = [NoCall EXCEPT !.op = "get_quant_scale", !.x = x,
                      !.xdtype = xdtype, !.contract_dims = contract_dims,
                      !.dtype = dtype,
                      !.out = GetQuantScaleOf(precision, stop_scale_gradient, x,
                                              contract_dims, xdtype, dtype)]
    /\ UNCHANGED <<precision, stop_scale_gradient, status>>

\* to_quant passes the assertion of _safe_clip_bound
ToQuantOk == IF precision = None THEN TRUE ELSE SafeClipBoundOk(precision[1])

\* the record of to_quant(x, dtype)
ToQuantCall(x, xdtype, dtype, tie) ==
    LET r == ToQuantOf(precision, x, xdtype, dtype, tie)
    IN  [NoCall EXCEPT !.op = "to_quant", !.x = x, !.xdtype = xdtype,
           !.dtype = dtype, !.out = Values(r), !.grad = Tangents(r)]

\* to_quant(x, dtype)
ToQuant ==
    /\ status = "ready"
    /\ call.op = "none"
    /\ ToQuantOk
    /\ \E xdtype \in DTypes, dtype \in DTypes, tie \in {Zero, Half} :
         \E x \in Tensors(precision, xdtype) :
           call' = ToQuantCall(x, xdtype, dtype, tie)
    /\ UNCHANGED <<precision, stop_scale_gradient, status>>

\* to_quant(y, dtype) on the result y of the to_quant call before
ToQuantAgain ==
    /\ status = "ready"
    /\ call.op = "to_quant"
    /\ ToQuantOk
    /\ call' = [ToQuantCall(call.out, call.dtype, call.dtype, Half)
                  EXCEPT !.from = "again"]
    /\ UNCHANGED <<precision, stop_scale_gradient, status>>

\* to_quant(x / scale, dtype) for the scale the get_quant_scale call before
\* returned for x, with contract_dims covering the whole tensor
ToQuantScaled ==
    /\ status = "ready"
    /\ call.op = "get_quant_scale"
    /\ call.contract_dims = Axes
    /\ ToQuantOk
    /\ \E dtype \in DTypes :
         LET ydtype == Promote(call.xdtype, call.dtype)
             y == Scaled(call.x, call.out, ydtype)
         IN  call' = [ToQuantCall(y, ydtype, dtype, Half)
                        EXCEPT !.from = "scaled", !.orig = call.x,
                               !.scale = call.out,
                               !.contract_dims = call.contract_dims]
    /\ UNCHANGED <<precision, stop_scale_gradient, status>>

\* the call returns to its caller
Return ==
    /\ call.op # "none"
    /\ call' = NoCall
    /\ UNCHANGED <<precision, stop_scale_gradient, status>>

Next ==
    \/ Setup
    \/ Call
    \/ Update
    \/ GetQuantScale
    \/ ToQuant
    \/ ToQuantAgain
    \/ ToQuantScaled
    \/ Return

Spec == Init /\ [][Next]_vars

(***************************************************************************)
(* Exact comparisons for the statements about the results.                 *)
(***************************************************************************)
\* the value of a dyadic integer
IntOf(a) == a.m * Pow2(a.e)

\* <<floor(|x| / s), whether |x| / s is an integer>>, for s > 0
MagQuot(x, s) ==
    LET n == IAbs(x.m)
        d == s.m
        t == x.e - s.e
    IN  IF n = 0 THEN <<0, TRUE>>
        ELSE IF t >= 0 THEN
            LET qr == LongDiv(n \div d, n % d, d, t) IN <<qr[1], qr[2] = 0>>
        ELSE IF BitLen(d) - t > BitLen(n) + 1 THEN <<0, FALSE>>
        ELSE LET dd == d * Pow2(-t) IN <<n \div dd, n % dd = 0>>

\* <<floor(x / s), whether x / s is an integer>>, for s > 0
FloorQuot(x, s) ==
    LET mq == MagQuot(x, s)
    IN  IF x.m >= 0 THEN mq
        ELSE IF mq[2] THEN <<-mq[1], TRUE>>
        ELSE <<-mq[1] - 1, FALSE>>

\* |q * s - x| <= s for an integer q and s > 0, in exact arithmetic
WithinOneStep(q, s, x) ==
    LET fq == FloorQuot(x, s)
        k == IntOf(q)
    IN  /\ fq[1] >= k - 1
        /\ fq[1] < k + 1 \/ (fq[1] = k + 1 /\ fq[2])

(***************************************************************************)
(* The claims.                                                             *)
(***************************************************************************)
Enabled == precision # None

P == precision[1]

Quantized == call.op = "to_quant" /\ Enabled

\* the index pairs of a tensor
Index(x) == {<<i, j>> : i \in 1..Len(x), j \in 1..Len(x[1])}

\* the element of the broadcast scale that belongs to element ij of x
ScaleAt(scale, ij) ==
    scale[IF Len(scale) = 1 THEN 1 ELSE ij[1]][IF Len(scale[1]) = 1 THEN 1 ELSE ij[2]]

\* C1: range containment.  For every enabled precision p in 1..23 and every
\* input element, the forward value of to_quant lies within
\* [-safe_bound(p), safe_bound(p)], safe_bound(p) = (2^p - 1)/2 - 2^(p-20).
C1_RangeContainment ==
    Quantized =>
        \A ij \in Index(call.out) :
            /\ Leq(Neg(SafeClipBound(P)), call.out[ij[1]][ij[2]])
            /\ Leq(call.out[ij[1]][ij[2]], SafeClipBound(P))

C3_GradientOneEverywhere ==
    Quantized => \A ij \in Index(call.grad) : call.grad[ij[1]][ij[2]] = One

\* C3, amended: the derivative is exactly 1 for every input strictly inside
\* the safe clip bound (as converted to the tensor's type), exactly 0 for every
\* input strictly beyond it, and 0 or 1/2 for an input at the bound itself.
C3_GradientInsideBound ==
    Quantized =>
        \A ij \in Index(call.grad) :
            LET b == Cast(SafeClipBound(P), call.xdtype)
                v == call.x[ij[1]][ij[2]]
                g == call.grad[ij[1]][ij[2]]
            IN  /\ (Lt(Neg(b), v) /\ Lt(v, b)) => g = One
                /\ (Lt(v, Neg(b)) \/ Lt(b, v)) => g = Zero
                /\ (v = b \/ v = Neg(b)) => g \in {Zero, Half}

\* one element is rounded with derivative 1, another is clipped with derivative 0
C3_Witness ==
    /\ Quantized
    /\ \E ij \in Index(call.grad) :
         /\ call.grad[ij[1]][ij[2]] = One
         /\ call.out[ij[1]][ij[2]] # call.x[ij[1]][ij[2]]
    /\ \E ij \in Index(call.grad) :
         /\ call.grad[ij[1]][ij[2]] = Zero
         /\ Lt(Cast(SafeClipBound(P), call.xdtype), DyAbs(call.x[ij[1]][ij[2]]))

\* C4: disabled identity.  With precision None, to_quant(x, dtype) is x cast to
\* dtype, neither clipped nor rounded to an integer, and every value of the
\* tensor get_quant_scale returns is 1.
C4_DisabledIdentity ==
    ~Enabled =>
        /\ call.op = "to_quant" =>
             \A ij \in Index(call.out) :
                 /\ call.out[ij[1]][ij[2]] = Cast(call.x[ij[1]][ij[2]], call.dtype)
                 /\ Bits(call.xdtype) <= Bits(call.dtype) =>
                      call.out[ij[1]][ij[2]] = call.x[ij[1]][ij[2]]
        /\ call.op = "get_quant_scale" =>
             \A ij \in Index(call.out) : call.out[ij[1]][ij[2]] = One

\* a value beyond the 8 bit bound and a half-integer come back unchanged
C4_Witness ==
    /\ ~Enabled /\ call.op = "to_quant"
    /\ \E ij \in Index(call.out) :
         /\ call.out[ij[1]][ij[2]] = Int2Dy(-200)
         /\ call.x[ij[1]][ij[2]] = Int2Dy(-200)
    /\ stop_scale_gradient

\* C5: config rejection.  setup fails exactly when precision is greater than
\* 23: 24 is rejected, 23, every smaller positive precision and None are
\* accepted.
C5_ConfigRejection ==
    status # "constructed" =>
        /\ status = "failed" <=> (Enabled /\ P > 23)
        /\ (Enabled /\ P = 24) => status = "failed"
        /\ (~Enabled \/ P \in 1..23) => status = "ready"

C5_Witness == Enabled /\ P = 24 /\ status = "failed"

\* C6: zero-scale safety.  With precision enabled and stop_scale_gradient,
\* get_quant_scale returns exactly 1 for every reduction group whose largest
\* magnitude is 0; the scale of every other group is nonzero and is the
\* quotient max|x| / ((2^p - 1)/2), within the rounding of the float types
\* (a relative 2^-6).
C6_ZeroScaleSafety ==
    (call.op = "get_quant_scale" /\ Enabled /\ stop_scale_gradient) =>
        \A ij \in Index(call.out) :
            LET x_bound == ReduceMaxAbs(call.x, call.contract_dims)[ij[1]][ij[2]]
                scale == call.out[ij[1]][ij[2]]
                \* floor(2^7 * x_bound / scale), and whether it is exact
                fq == FloorQuot(Norm(x_bound.m, x_bound.e + 7), scale)
                lo == (Pow2(P) - 1) * 63
                hi == (Pow2(P) - 1) * 65
            IN  IF x_bound = Zero THEN scale = One
                ELSE /\ Lt(Zero, scale)
                     /\ fq[1] >= lo
                     /\ fq[1] < hi \/ (fq[1] = hi /\ fq[2])

\* a tensor with an all-zero group and a group that is not
C6_Witness ==
    /\ call.op = "get_quant_scale" /\ Enabled /\ stop_scale_gradient
    /\ \E ij \in Index(call.out) :
         /\ ReduceMaxAbs(call.x, call.contract_dims)[ij[1]][ij[2]] = Zero
         /\ call.out[ij[1]][ij[2]] = One
    /\ \E ij \in Index(call.out) : call.out[ij[1]][ij[2]] # One

\* C7: idempotence.  For every enabled precision and every input x,
\* to_quant(to_quant(x)) = to_quant(x).
C7_Idempotence ==
    (Quantized /\ call.from = "again") => call.out = call.x

\* C8: statelessness.  No call changes the configuration, update and __call__
\* return nothing, and the result of get_quant_scale and of to_quant is a
\* function of the call's arguments and the configuration (c is the call after
\* the step).
C8_Stateless ==
    [][/\ precision' = precision
       /\ stop_scale_gradient' = stop_scale_gradient
       /\ \A c \in {call'} :
            /\ c.op \in {"update", "__call__"} =>
                 c.out = <<>> /\ status' = status
            /\ c.op = "get_quant_scale" =>
                 c.out = GetQuantScaleOf(precision, stop_scale_gradient, c.x,
                                         c.contract_dims, c.xdtype, c.dtype)
            /\ c.op = "to_quant" =>
                 c.out = Values(ToQuantOf(precision, c.x, c.xdtype, c.dtype,
                                          Half))]_vars

C8_Witness == call.op = "update" /\ Enabled /\ status = "ready"

\* a + 1/2 exactly
PlusHalf(a) == DySub(a, Neg(Half))

\* C9: round half up after clipping.  With precision enabled the forward
\* value of to_quant(x) is floor(clip(x, -safe_bound, safe_bound) + 0.5) for
\* every element.
C9_RoundHalfUp ==
    (Quantized /\ call.from = "caller") =>
        \A ij \in Index(call.out) :
            call.out[ij[1]][ij[2]] =
                Floor(PlusHalf(DyMin(SafeClipBound(P),
                                     DyMax(Neg(SafeClipBound(P)),
                                           call.x[ij[1]][ij[2]]))))

\* the shape keepdims gives: the axes of contract_dims have size 1, the others
\* keep their size
KeepDimsShape(x, contract_dims) ==
    <<IF 0 \in contract_dims THEN 1 ELSE Len(x),
      IF 1 \in contract_dims THEN 1 ELSE Len(x[1])>>

\* C10, as claimed: for every precision and contract_dims the shape of the
\* tensor get_quant_scale returns is the shape of x with each axis in
\* contract_dims reduced to size 1, every other axis keeping its size.
C10_ScaleShapeEveryPrecision ==
    call.op = "get_quant_scale" =>
        Shape(call.out) = KeepDimsShape(call.x, call.contract_dims)

\* C10, amended: that is the shape for every enabled precision; with precision
\* None every axis of the result has size 1.
C10_ScaleShape ==
    call.op = "get_quant_scale" =>
        Shape(call.out) = IF Enabled
                          THEN KeepDimsShape(call.x, call.contract_dims)
                          ELSE <<1, 1>>

\* one axis reduced, the other kept with its size above 1
C10_Witness ==
    /\ call.op = "get_quant_scale" /\ Enabled
    /\ call.contract_dims = {1}
    /\ Shape(call.x) = <<MaxDim, MaxDim>>
    /\ Shape(call.out) = <<MaxDim, 1>>

====
